---- MODULE Spec2Model ----
(***************************************************************************)
(* Plan Statistics Aggregator (backend/src/services/planMetrics.ts).       *)
(*                                                                         *)
(* getPlanStats(period) reads the wall clock, derives a cutoff and a range *)
(* start, issues six aggregate queries against node_plan (joined with      *)
(* gpu_classes for the four breakdowns) and assembles one response.        *)
(*                                                                         *)
(* Representation                                                          *)
(*  - Instants are counted in ticks since the epoch; TicksPerHour ticks    *)
(*    make one hour, so one tick stands for MsPerTick milliseconds.        *)
(*  - Hour quantities (compute_hours, gpu_hours, ...) are carried exactly, *)
(*    in units of 1/TicksPerHour hour.                                     *)
(*  - A nullable SQL column, and a nullable JavaScript value, is a set:    *)
(*    {} is NULL / null, {v} is the value v.  A JavaScript number that may *)
(*    be NaN is a set too: {} is NaN, {n} is the number n.                 *)
(*  - node_plan is a bag of rows (the SERIAL id column is read by no query *)
(*    and is left out).                                                    *)
(*  - What the driver returns as text is a sequence of characters.         *)
(***************************************************************************)
EXTENDS Integers, Sequences, FiniteSets, Bags, TLC

(***************************************************************************)
(* Time                                                                    *)
(***************************************************************************)
TicksPerHour == 2

MsPerTick == 3600000 \div TicksPerHour

HoursPerDay == 24

\* const DATA_OFFSET_HOURS = 48
DATA_OFFSET_HOURS == 48

IsNull(x) == x = {}

\* NaN, the time value of an Invalid Date: a value apart from every instant and
\* every hour count.  A PERIOD_HOURS entry that is missing (undefined) is
\* written NaN as well: `=== null`, `>` and `-` treat the two alike.
NaN == -1000000

Val(x) == CHOOSE v \in x : TRUE

Hours(h) == h * TicksPerHour

(***************************************************************************)
(* Periods                                                                 *)
(***************************************************************************)
PlanPeriod == {"6h", "24h", "7d", "30d", "90d", "total"}

\* PERIOD_HOURS: the hour count of a period, null for 'total'
PERIOD_HOURS(period) ==
  CASE period = "6h"    -> {6}
    [] period = "24h"   -> {24}
    [] period = "7d"    -> {168}
    [] period = "30d"   -> {720}
    [] period = "90d"   -> {2160}
    [] period = "total" -> {}
    [] OTHER            -> {NaN}

\* getGranularity with the comparison off by one (hours >= 168)
getGranularityOffByOne(period) ==
  LET hours == PERIOD_HOURS(period)
  IN  IF IsNull(hours) \/ (Val(hours) # NaN /\ Val(hours) >= 168) THEN "daily" ELSE "hourly"

\* getGranularity: hours === null || hours > 168 ? 'daily' : 'hourly'
getGranularity(period) ==
  LET hours == PERIOD_HOURS(period)
  IN  IF IsNull(hours) \/ (Val(hours) # NaN /\ Val(hours) > 168) THEN "daily" ELSE "hourly"

(***************************************************************************)
(* Time zones.  Date.prototype.getHours / setHours work on local time; a   *)
(* zone is its UTC offset before and after one transition instant.         *)
(***************************************************************************)
ZoneUTC == [name |-> "UTC", before |-> 0, after |-> 0, at |-> 0]

\* UTC-5 until tick 60, UTC-4 from then on (clocks go forward one hour)
ZoneForward == [name |-> "forward", before |-> -Hours(5), after |-> -Hours(4), at |-> 60]

\* UTC-4 until tick 6, UTC-5 from then on (clocks go back one hour)
ZoneBack == [name |-> "back", before |-> -Hours(4), after |-> -Hours(5), at |-> 6]

TimeZones == {ZoneUTC, ZoneForward, ZoneBack}

\* the zone's offset from UTC in force at instant t
OffsetAt(tz, t) == IF t >= tz.at THEN tz.after ELSE tz.before

\* LocalTime(t) of ECMA-262: the local wall-clock reading of instant t
LocalTime(tz, t) == t + OffsetAt(tz, t)

\* UTC(t_local) of ECMA-262: a local reading that is skipped or repeated at
\* the transition is interpreted with the offset before the transition
UTC(tz, tlocal) ==
  IF tlocal - tz.before < tz.at THEN tlocal - tz.before
  ELSE IF tlocal - tz.after >= tz.at THEN tlocal - tz.after
  ELSE tlocal - tz.before

\* d.setHours(d.getHours() - hours): the local reading moved back by hours;
\* the Date becomes invalid when hours is no number
SetHoursBack(tz, t, hours) ==
  IF hours = NaN \/ t = NaN THEN NaN ELSE UTC(tz, LocalTime(tz, t) - Hours(hours))

\* getDataCutoff: new Date() moved back DATA_OFFSET_HOURS local hours
getDataCutoff(tz, clock) == SetHoursBack(tz, clock, DATA_OFFSET_HOURS)

\* getRangeStart: null for 'total', else the cutoff moved back by the period
getRangeStart(tz, cutoff, period) ==
  LET hours == PERIOD_HOURS(period)
  IN  IF IsNull(hours) THEN {} ELSE {SetHoursBack(tz, cutoff, Val(hours))}

\* toEpochMs, and `rangeStart ? toEpochMs(rangeStart) : null` (a Date object
\* is always truthy)
toEpochMs(date) == date

StartMs(rangeStart) == IF IsNull(rangeStart) THEN {} ELSE {toEpochMs(Val(rangeStart))}

\* JavaScript truthiness of `startMs` (number | null): null, 0 and NaN are
\* falsy
Truthy(num) == ~IsNull(num) /\ Val(num) # 0 /\ Val(num) # NaN

\* `startMs ? 'stop_at <= $1 AND stop_at >= $2' : 'stop_at <= $1'`, evaluated
\* by SQL on a row: a comparison with a NULL stop_at is not true
timeWhere(row, cutoffMs, startMs) ==
  /\ ~IsNull(row.stop_at)
  /\ Val(row.stop_at) <= cutoffMs
  /\ (Truthy(startMs) => Val(row.stop_at) >= Val(startMs))

(***************************************************************************)
(* Text, as the driver returns aggregates and as the response reports      *)
(* timestamps: a sequence of characters (an opaque word is one element).   *)
(***************************************************************************)
Digit == <<"0", "1", "2", "3", "4", "5", "6", "7", "8", "9">>

RECURSIVE NatText(_)
NatText(n) ==
  IF n < 10 THEN <<Digit[n + 1]>> ELSE NatText(n \div 10) \o <<Digit[(n % 10) + 1]>>

\* a number rendered as decimal text (integer::text, and the driver's text
\* form of a bigint or numeric result)
ToText(n) == IF n < 0 THEN <<"-">> \o NatText(-n) ELSE NatText(n)

DigitVal(c) == {d \in 0..9 : Digit[d + 1] = c}

RECURSIVE ParseDigits(_)
\* the value of a non-empty run of digits, {} when a character is no digit
ParseDigits(s) ==
  LET d == DigitVal(s[Len(s)])
  IN  IF IsNull(d) THEN {}
      ELSE IF Len(s) = 1 THEN d
      ELSE LET rest == ParseDigits(SubSeq(s, 1, Len(s) - 1))
           IN  IF IsNull(rest) THEN {} ELSE {10 * Val(rest) + Val(d)}

\* parseInt(text, 10) / parseFloat(text) on a numeral: an optional sign and
\* digits; NaN ({}) for anything else
ParseNumeral(s) ==
  IF Len(s) = 0 THEN {}
  ELSE IF s[1] = "-"
       THEN IF Len(s) = 1 THEN {}
            ELSE LET m == ParseDigits(Tail(s)) IN IF IsNull(m) THEN {} ELSE {-Val(m)}
       ELSE ParseDigits(s)

\* `text || '0'`: null and the empty string are falsy
OrZeroText(field) == IF IsNull(field) \/ Val(field) = <<>> THEN <<"0">> ELSE Val(field)

\* parseFloat(field || '0')
parseFloat(field) == ParseNumeral(OrZeroText(field))

\* parseInt(field, 10) || 0: NaN and 0 are falsy
parseInt(field) ==
  LET n == IF IsNull(field) THEN {} ELSE ParseNumeral(Val(field))
  IN  IF IsNull(n) THEN {0} ELSE n

TwoDigits(n) == IF n < 10 THEN <<"0">> \o NatText(n) ELSE NatText(n)

\* Date.prototype.toISOString: the instant's UTC reading, whatever the local
\* zone (the calendar date is written as the day count since the epoch)
toISOString(t) ==
  ToText(t \div Hours(HoursPerDay)) \o <<"T">>
    \o TwoDigits((t % Hours(HoursPerDay)) \div TicksPerHour) \o <<":">>
    \o TwoDigits(((t % TicksPerHour) * 60) \div TicksPerHour) \o <<"Z">>

(***************************************************************************)
(* The datastore: gpu_classes (001_init.sql) and node_plan                 *)
(* (002_plans_tables.sql).                                                 *)
(***************************************************************************)
\* gpu_classes: gpu_class_id is the primary key, gpu_class_name is NOT NULL,
\* vram_gb is nullable
GpuClasses ==
  { [gpu_class_id |-> "gpu-A", gpu_class_name |-> "RTX4090", vram_gb |-> {24}],
    [gpu_class_id |-> "gpu-B", gpu_class_name |-> "RTX3060", vram_gb |-> {8}],
    [gpu_class_id |-> "gpu-C", gpu_class_name |-> "A100",    vram_gb |-> {}] }

\* a node_plan row; every column is nullable
NodePlan(node, start, stop, invoice, cpu, ram, gpu) ==
  [node_id |-> node, start_at |-> start, stop_at |-> stop,
   invoice_amount |-> invoice, cpu |-> cpu, ram |-> ram, gpu_class_id |-> gpu]

\* a one-hour usage by node n1 on gpu-A, ending at tick stop
BaseRow(stop) == NodePlan({"n1"}, {stop - Hours(1)}, {stop}, {5}, {1}, {1024}, {"gpu-A"})

\* The rows an import may add.  Ticks -1..13 surround the windows the
\* clock readings of Instants produce.
RowPool ==
  \* the stop_at axis
  { BaseRow(t) : t \in {-1, 0, 5, 12, 13} }
  \cup
  \* the node_id axis
  { [BaseRow(5) EXCEPT !.node_id = n] : n \in {{"n2"}, {}} }
  \cup
  \* the gpu_class_id axis: null, empty, other classes, a class not in the lookup
  { [BaseRow(5) EXCEPT !.gpu_class_id = g, !.invoice_amount = {10}] :
      g \in {{}, {""}, {"gpu-B"}, {"gpu-C"}, {"gpu-X"}} }
  \cup
  { NodePlan({"n2"}, {10}, {12}, {10}, {2}, {2048}, {}) }
  \cup
  \* null columns
  { [BaseRow(5) EXCEPT !.invoice_amount = {}, !.cpu = {}, !.ram = {}],
    [BaseRow(5) EXCEPT !.start_at = {}],
    [BaseRow(5) EXCEPT !.stop_at = {}] }
  \cup
  \* stop_at before start_at
  { NodePlan({"n2"}, {7}, {5}, {5}, {1}, {1024}, {}) }

\* at most this many rows are in node_plan
MaxRows == 2

\* The three records of the end-to-end scenario: two one-hour usages ending
\* one hour after the epoch, without GPU and on gpu-A, and a usage that ends
\* after every cutoff
EndToEndA == NodePlan({"n1"}, {0}, {Hours(1)}, {5}, {1}, {1024}, {})

EndToEndB(node) == NodePlan({node}, {0}, {Hours(1)}, {10}, {1}, {1024}, {"gpu-A"})

EndToEndC == NodePlan({"n1"}, {Hours(9)}, {Hours(10)}, {5}, {1}, {1024}, {"gpu-A"})

EndToEnd(node) == SetToBag({EndToEndA, EndToEndB(node), EndToEndC})

\* A fleet: ten nodes without GPU and two nodes on gpu-A, one one-hour usage
\* each
FleetNoGpu == {"f01", "f02", "f03", "f04", "f05", "f06", "f07", "f08", "f09", "f10"}

FleetGpu == {"g01", "g02"}

Fleet ==
  SetToBag({NodePlan({n}, {3}, {5}, {5}, {1}, {1024}, {}) : n \in FleetNoGpu}
             \cup {NodePlan({n}, {3}, {5}, {5}, {1}, {1024}, {"gpu-A"}) : n \in FleetGpu})

\* One usage on each kind of GPU class id: with 24 GB, with 8 GB, a class
\* without VRAM value, an id that gpu_classes does not have, and none
VramTiers ==
  SetToBag({ NodePlan({"n1"}, {4}, {5}, {5}, {1}, {1024}, {"gpu-A"}),
             NodePlan({"n1"}, {3}, {5}, {5}, {1}, {1024}, {"gpu-B"}),
             NodePlan({"n1"}, {2}, {5}, {5}, {1}, {1024}, {"gpu-C"}),
             NodePlan({"n1"}, {1}, {5}, {5}, {1}, {1024}, {"gpu-X"}),
             NodePlan({"n1"}, {3}, {5}, {5}, {1}, {1024}, {}) })

\* the datasets an import may have left in node_plan
Datasets == {EndToEnd("n1"), EndToEnd("n2"), Fleet, VramTiers}

(***************************************************************************)
(* SQL expressions and aggregates                                          *)
(***************************************************************************)
\* the rows of bag B that are in S, with their multiplicities
Where(B, S) == [r \in S \cap DOMAIN B |-> B[r]]

RECURSIVE WeightedSum(_, _, _)
\* the sum over r in S of B[r] * Val(F[r])
WeightedSum(B, F, S) ==
  IF S = {} THEN 0
  ELSE LET r == CHOOSE x \in S : TRUE
       IN  B[r] * Val(F[r]) + WeightedSum(B, F, S \ {r})

\* a SUM that a single NULL input turns NULL
SumNullPoisons(B, F) ==
  IF \E r \in DOMAIN B : IsNull(F[r]) THEN {} ELSE {WeightedSum(B, F, DOMAIN B)}

\* SUM(expr): NULL inputs are skipped; NULL when no input is non-null
SUM(B, F) ==
  LET nonNull == {r \in DOMAIN B : ~IsNull(F[r])}
  IN  IF nonNull = {} THEN {} ELSE {WeightedSum(B, F, nonNull)}

\* COALESCE(x, d)
COALESCE(x, d) == IF IsNull(x) THEN d ELSE Val(x)

\* COUNT(DISTINCT node_id): NULLs are not counted
COUNT_DISTINCT_node_id(B) == Cardinality(UNION {r.node_id : r \in DOMAIN B})

\* COUNT(*)
COUNT_STAR(B) == BagCardinality(B)

\* gpu_class_id IS NOT NULL AND gpu_class_id != ''
HasGpu(row) == ~IsNull(row.gpu_class_id) /\ Val(row.gpu_class_id) # ""

\* (stop_at - start_at) / 1000.0 / 3600.0, NULL when an operand is NULL
DurationHours(row) ==
  IF IsNull(row.stop_at) \/ IsNull(row.start_at) THEN {}
  ELSE {Val(row.stop_at) - Val(row.start_at)}

\* cpu * (stop_at - start_at) / 1000.0 / 3600.0
CoreHours(row) ==
  IF IsNull(row.cpu) \/ IsNull(DurationHours(row)) THEN {}
  ELSE {Val(row.cpu) * Val(DurationHours(row))}

\* ram-hours left in the unit of the ram column (the division by 1024.0 left
\* out)
RamHoursNotNormalized(row) ==
  IF IsNull(row.ram) \/ IsNull(DurationHours(row)) THEN {}
  ELSE {Val(row.ram) * Val(DurationHours(row))}

\* ram * (stop_at - start_at) / 1000.0 / 3600.0 / 1024.0
RamHours(row) ==
  IF IsNull(row.ram) \/ IsNull(DurationHours(row)) THEN {}
  ELSE {(Val(row.ram) * Val(DurationHours(row))) \div 1024}

\* the GPU branch converted to seconds only (the division by 3600.0 left out)
GpuHoursInSeconds(row) ==
  IF ~HasGpu(row) THEN {0}
  ELSE IF IsNull(DurationHours(row)) THEN {}
  ELSE {3600 * Val(DurationHours(row))}

\* CASE WHEN gpu_class_id IS NOT NULL AND gpu_class_id != ''
\*      THEN (stop_at - start_at) / 1000.0 / 3600.0 ELSE 0 END
GpuHours(row) == IF HasGpu(row) THEN DurationHours(row) ELSE {0}

\* the seven aggregate columns of the totals and time-series queries over
\* the rows of bag B, as the driver returns them
AggregateColumns(B) ==
  [active_nodes  |-> {ToText(COUNT_DISTINCT_node_id(B))},
   total_fees    |-> {ToText(COALESCE(SUM(B, [r \in DOMAIN B |-> r.invoice_amount]), 0))},
   compute_hours |-> {ToText(COALESCE(SUM(B, [r \in DOMAIN B |-> DurationHours(r)]), 0))},
   transactions  |-> {ToText(COUNT_STAR(B))},
   core_hours    |-> {ToText(COALESCE(SUM(B, [r \in DOMAIN B |-> CoreHours(r)]), 0))},
   ram_hours     |-> {ToText(COALESCE(SUM(B, [r \in DOMAIN B |-> RamHours(r)]), 0))},
   gpu_hours     |-> {ToText(COALESCE(SUM(B, [r \in DOMAIN B |-> GpuHours(r)]), 0))}]

\* the seven numeric fields of PlanTotals / PlanDataPoint parsed from a row
ParseAggregates(row) ==
  [active_nodes  |-> parseInt(row.active_nodes),
   total_fees    |-> parseFloat(row.total_fees),
   compute_hours |-> parseFloat(row.compute_hours),
   transactions  |-> parseInt(row.transactions),
   core_hours    |-> parseFloat(row.core_hours),
   ram_hours     |-> parseFloat(row.ram_hours),
   gpu_hours     |-> parseFloat(row.gpu_hours)]

\* the rows of node_plan that pass WHERE ${timeWhere}
Matching(B, cutoffMs, startMs) ==
  Where(B, {r \in DOMAIN B : timeWhere(r, cutoffMs, startMs)})

(***************************************************************************)
(* Query 1: totals                                                         *)
(***************************************************************************)
\* totalsResult[0]: an aggregate query without GROUP BY returns one row
TotalsRow(B, cutoffMs, startMs) == AggregateColumns(Matching(B, cutoffMs, startMs))

(***************************************************************************)
(* Query 2: time series                                                    *)
(***************************************************************************)
\* the session time zones of the datastore (fixed offsets): UTC and UTC+5:30
DbZoneUTC == ZoneUTC

DbZoneHalfHour == [name |-> "UTC+5:30", before |-> 11, after |-> 11, at |-> 0]

DbTimeZones == {DbZoneUTC, DbZoneHalfHour}

\* The process zone and the session zone are set independently and read by
\* different code (Date arithmetic, date_trunc): a deployment departs from
\* UTC in one of them.
Deployments ==
  {[tz |-> z, dbTz |-> DbZoneUTC] : z \in TimeZones}
    \cup {[tz |-> ZoneUTC, dbTz |-> z] : z \in DbTimeZones}

\* const bucketInterval = granularity === 'hourly' ? 'hour' : 'day'
bucketInterval(gran) == IF gran = "hourly" THEN "hour" ELSE "day"

\* the length of a date_trunc unit
UnitTicks(unit) == IF unit = "hour" THEN Hours(1) ELSE Hours(HoursPerDay)

\* date_trunc(unit, to_timestamp(stop_at / 1000.0)): the start, in the
\* session's zone, of the hour or day the instant lies in
DateTrunc(zone, unit, t) ==
  LET tlocal == LocalTime(zone, t)
  IN  UTC(zone, tlocal - (tlocal % UnitTicks(unit)))

\* the rows of the time-series query, one per bucket (GROUP BY bucket)
TimeSeriesGroups(B, cutoffMs, startMs, unit, zone) ==
  LET M == Matching(B, cutoffMs, startMs)
      BucketOf(r) == DateTrunc(zone, unit, Val(r.stop_at))
  IN  { [bucket |-> b] @@ AggregateColumns(Where(M, {r \in DOMAIN M : BucketOf(r) = b})) :
          b \in {BucketOf(r) : r \in DOMAIN M} }

RECURSIVE SortByBucket(_)
\* ORDER BY bucket
SortByBucket(rows) ==
  IF rows = {} THEN <<>>
  ELSE LET first == CHOOSE x \in rows : \A y \in rows : x.bucket <= y.bucket
       IN  <<first>> \o SortByBucket(rows \ {first})

\* timeSeriesResult
TimeSeriesResult(B, cutoffMs, startMs, gran, zone) ==
  SortByBucket(TimeSeriesGroups(B, cutoffMs, startMs, bucketInterval(gran), zone))

\* a PlanDataPoint whose transactions is parsed from row.active_nodes
PlanDataPointCopyPaste(row) ==
  [timestamp |-> toISOString(row.bucket)]
    @@ [ParseAggregates(row) EXCEPT !.transactions = parseInt(row.active_nodes)]

\* timeSeriesResult.map(...): a PlanDataPoint per row
PlanDataPoint(row) == [timestamp |-> toISOString(row.bucket)] @@ ParseAggregates(row)

(***************************************************************************)
(* Queries 3-6: the grouped breakdowns                                     *)
(***************************************************************************)
\* LEFT JOIN gpu_classes gc ON np.gpu_class_id = gc.gpu_class_id: the class
\* rows joined to a node_plan row (none, or one: the id is the primary key)
Joined(row) ==
  {gc \in GpuClasses : ~IsNull(row.gpu_class_id) /\ gc.gpu_class_id = Val(row.gpu_class_id)}

\* gc.gpu_class_name of the joined row, NULL when nothing joins
GcName(row) == {gc.gpu_class_name : gc \in Joined(row)}

\* gc.vram_gb of the joined row, NULL when nothing joins or the class has none
GcVram(row) == UNION {gc.vram_gb : gc \in Joined(row)}

\* GROUP BY over the rows of bag B, keyOf[r] being the grouping expression
\* of row r: one group per key value, with the rows that have it
GroupBy(B, keyOf) ==
  { [key |-> k, rows |-> Where(B, {r \in DOMAIN B : keyOf[r] = k})] :
      k \in {keyOf[r] : r \in DOMAIN B} }

\* GROUP BY gc.gpu_class_name
GroupByName(B) == GroupBy(B, [r \in DOMAIN B |-> GcName(r)])

\* GROUP BY gc.vram_gb
GroupByVram(B) == GroupBy(B, [r \in DOMAIN B |-> GcVram(r)])

\* the sequences that list every row of a result set once
Listings(rows) ==
  {s \in [1..Cardinality(rows) -> rows] : \A x \in rows : \E i \in DOMAIN s : s[i] = x}

\* ORDER BY: the orders a result set may be returned in, when the pairs
\* <<a, b>> of `precedes` are those where a must be listed before b (rows
\* that tie come in any order)
OrderBy(rows, precedes) ==
  {s \in Listings(rows) : \A i, j \in DOMAIN s : i < j => <<s[j], s[i]>> \notin precedes}

RECURSIVE TextLess(_, _)
\* text a sorts before text b (numerals: character by character, a proper
\* prefix first)
TextLess(a, b) ==
  IF Len(b) = 0 THEN FALSE
  ELSE IF Len(a) = 0 THEN TRUE
  ELSE IF a[1] # b[1] THEN Val(DigitVal(a[1])) < Val(DigitVal(b[1]))
  ELSE TextLess(Tail(a), Tail(b))

\* SUM((np.stop_at - np.start_at) / 1000.0 / 3600.0) of a group
SumDurationHours(G) == SUM(G, [r \in DOMAIN G |-> DurationHours(r)])

\* one label for every query: COALESCE(gc.gpu_class_name, 'Unknown')
NameLabelAlwaysUnknown(k, ifNull) == IF IsNull(k) THEN <<"Unknown">> ELSE <<Val(k)>>

\* COALESCE(gc.gpu_class_name, <label>)
NameLabel(k, ifNull) == IF IsNull(k) THEN <<ifNull>> ELSE <<Val(k)>>

\* COALESCE(gc.vram_gb::text || ' GB', <label>)
VramLabel(k, ifNull) == IF IsNull(k) THEN <<ifNull>> ELSE ToText(Val(k)) \o <<" GB">>

\* the GPU restriction without its second conjunct: AND np.gpu_class_id IS
\* NOT NULL only
MatchingWithGpuNotNullOnly(B, cutoffMs, startMs) ==
  Where(Matching(B, cutoffMs, startMs), {r \in DOMAIN B : ~IsNull(r.gpu_class_id)})

\* AND np.gpu_class_id IS NOT NULL AND np.gpu_class_id != ''
MatchingWithGpu(B, cutoffMs, startMs) ==
  Where(Matching(B, cutoffMs, startMs), {r \in DOMAIN B : HasGpu(r)})

\* ORDER BY value DESC, value a number
NumberDesc(rows) == {<<a, b>> \in rows \X rows : a.sum > b.sum}

\* ORDER BY value DESC, value a text
TextDesc(rows) == {<<a, b>> \in rows \X rows : TextLess(Val(b.value), Val(a.value))}

\* ORDER BY gc.vram_gb: ascending, and PostgreSQL lists NULL last by default
VramAscNullsLast(rows) ==
  {<<a, b>> \in rows \X rows : ~IsNull(a.key) /\ (IsNull(b.key) \/ Val(a.key) < Val(b.key))}

\* ORDER BY gc.vram_gb NULLS FIRST
VramAscNullsFirst(rows) ==
  {<<a, b>> \in rows \X rows :
     IF IsNull(a.key) THEN ~IsNull(b.key) ELSE ~IsNull(b.key) /\ Val(a.key) < Val(b.key)}

\* the result row of a GPU-hours group: sum is the value column in the
\* datastore, value its text as the driver returns it
GpuHoursRow(g, label) ==
  [key |-> g.key, group_name |-> label,
   sum |-> COALESCE(SumDurationHours(g.rows), 0),
   value |-> {ToText(COALESCE(SumDurationHours(g.rows), 0))}]

\* the result row of an active-nodes group
ActiveNodesRow(g, label) ==
  [key |-> g.key, group_name |-> label,
   value |-> {ToText(COUNT_DISTINCT_node_id(g.rows))}]

\* 3. gpuHoursByModelQuery: the result sets the query may return
GpuHoursByModelResult(B, cutoffMs, startMs) ==
  LET rows == {GpuHoursRow(g, NameLabel(g.key, "Unknown")) :
                 g \in GroupByName(MatchingWithGpu(B, cutoffMs, startMs))}
  IN  OrderBy(rows, NumberDesc(rows))

\* 4. gpuHoursByVramQuery
GpuHoursByVramResult(B, cutoffMs, startMs) ==
  LET rows == {GpuHoursRow(g, VramLabel(g.key, "Unknown")) :
                 g \in GroupByVram(MatchingWithGpu(B, cutoffMs, startMs))}
  IN  OrderBy(rows, VramAscNullsLast(rows))

\* 5. activeNodesByModelQuery: value is COUNT(DISTINCT np.node_id)::text, and
\* ORDER BY value DESC orders by that text
ActiveNodesByModelResult(B, cutoffMs, startMs) ==
  LET rows == {ActiveNodesRow(g, NameLabel(g.key, "No GPU")) :
                 g \in GroupByName(Matching(B, cutoffMs, startMs))}
  IN  OrderBy(rows, TextDesc(rows))

\* 6. activeNodesByVramQuery
ActiveNodesByVramResult(B, cutoffMs, startMs) ==
  LET rows == {ActiveNodesRow(g, VramLabel(g.key, "No GPU")) :
                 g \in GroupByVram(Matching(B, cutoffMs, startMs))}
  IN  OrderBy(rows, VramAscNullsFirst(rows))

\* (row) => ({group: row.group_name, value: parseFloat(row.value || '0')})
GroupedMetric(row) == [group |-> row.group_name, value |-> parseFloat(row.value)]

\* result.map(GroupedMetric)
GroupedMetrics(result) == [i \in DOMAIN result |-> GroupedMetric(result[i])]

\* timeSeriesResult.map(PlanDataPoint)
PlanDataPoints(result) == [i \in DOMAIN result |-> PlanDataPoint(result[i])]

(***************************************************************************)
(* State                                                                   *)
(***************************************************************************)
VARIABLES
  store,                  \* node_plan, a bag of rows
  tz,                     \* the time zone of the process running getPlanStats
  dbTz,                   \* the time zone of the datastore session
  pc,                     \* where the invocation of getPlanStats stands
  now,                    \* the instant `new Date()` gave the invocation
  period,                 \* its argument
  cutoff,                 \* const cutoff
  rangeStart,             \* const rangeStart (Date | null)
  granularity,            \* const granularity
  totals,                 \* const totals
  timeSeries,             \* const timeSeries
  gpuHoursByModel,        \* const gpuHoursByModel
  gpuHoursByVram,         \* const gpuHoursByVram
  activeNodesByGpuModel,  \* const activeNodesByGpuModel
  activeNodesByVram,      \* const activeNodesByVram
  response,               \* the PlanStatsResponse returned
  issued,                 \* the calls of query() the invocation made, in order
  error                   \* what the invocation's promise was rejected with

locals ==
  <<now, period, cutoff, rangeStart, granularity, totals, timeSeries, gpuHoursByModel,
    gpuHoursByVram, activeNodesByGpuModel, activeNodesByVram, response, issued, error>>

env == <<tz, dbTz>>

vars == <<store, env, pc, locals>>

\* a local not assigned yet
Unset == <<>>

\* no rejection
NoError == ""

\* the readings `new Date()` may give: 54 hours after the epoch, and the
\* half hour after that
Instants == {108, 109}

\* const cutoffMs, const startMs
cutoffMs == toEpochMs(cutoff)

startMs == StartMs(rangeStart)

\* the six awaited queries in program order, named by the local each fills
QueryOrder ==
  <<"totals", "timeSeries", "gpuHoursByModel", "gpuHoursByVram", "activeNodesByGpuModel",
    "activeNodesByVram">>

\* no invocation is in progress
InitLocals ==
  /\ pc = "idle"
  /\ now = 0
  /\ period = ""
  /\ cutoff = 0
  /\ rangeStart = {}
  /\ granularity = ""
  /\ totals = Unset
  /\ timeSeries = Unset
  /\ gpuHoursByModel = Unset
  /\ gpuHoursByVram = Unset
  /\ activeNodesByGpuModel = Unset
  /\ activeNodesByVram = Unset
  /\ response = Unset
  /\ issued = <<>>
  /\ error = NoError

Init ==
  /\ store = EmptyBag
  /\ \E d \in Deployments : tz = d.tz /\ dbTz = d.dbTz
  /\ InitLocals

(***************************************************************************)
(* The environment: imports add rows to node_plan and remove them          *)
(***************************************************************************)
InsertRow(row) ==
  /\ pc = "idle"
  /\ BagCardinality(store) < MaxRows
  /\ store' = store (+) SetToBag({row})
  /\ UNCHANGED <<env, pc, locals>>

DeleteRow(row) ==
  /\ pc = "idle"
  /\ BagIn(row, store)
  /\ store' = store (-) SetToBag({row})
  /\ UNCHANGED <<env, pc, locals>>

(***************************************************************************)
(* getPlanStats(period)                                                    *)
(***************************************************************************)
\* `await query(...)` returned rows: the call is on record
Awaited(name) == issued' = Append(issued, [query |-> name, outcome |-> "ok"])

\* the statement after the query the invocation stands at
AfterQuery(name) ==
  IF \E i \in 1..(Len(QueryOrder) - 1) : QueryOrder[i] = name
  THEN QueryOrder[(CHOOSE i \in 1..(Len(QueryOrder) - 1) : QueryOrder[i] = name) + 1]
  ELSE "return"

\* an exception that is caught and dropped: the function carries on with
\* the statement after the query
ThrowCaught(e) ==
  /\ pc' = AfterQuery(pc)
  /\ error' = NoError

\* an exception leaves the async function: nothing catches it, the promise
\* is rejected with it and no later statement runs
Throw(e) ==
  /\ pc' = "failed"
  /\ error' = e

\* lines 84-95: read the clock, derive the bounds and the granularity
Call(p, clock) ==
  /\ pc = "idle"
  /\ now' = clock
  /\ period' = p
  /\ cutoff' = getDataCutoff(tz, clock)
  /\ rangeStart' = getRangeStart(tz, cutoff', p)
  /\ granularity' = getGranularity(p)
  /\ pc' = "totals"
  /\ UNCHANGED <<store, env, totals, timeSeries, gpuHoursByModel, gpuHoursByVram,
                 activeNodesByGpuModel, activeNodesByVram, response, issued, error>>

\* lines 97-126
QueryTotals ==
  /\ pc = "totals"
  /\ totals' = ParseAggregates(TotalsRow(store, cutoffMs, startMs))
  /\ Awaited("totals")
  /\ pc' = "timeSeries"
  /\ UNCHANGED <<store, env, now, period, cutoff, rangeStart, granularity, timeSeries,
                 gpuHoursByModel, gpuHoursByVram, activeNodesByGpuModel,
                 activeNodesByVram, response, error>>

\* lines 128-160
QueryTimeSeries ==
  /\ pc = "timeSeries"
  /\ timeSeries' =
       PlanDataPoints(TimeSeriesResult(store, cutoffMs, startMs, granularity, dbTz))
  /\ Awaited("timeSeries")
  /\ pc' = "gpuHoursByModel"
  /\ UNCHANGED <<store, env, now, period, cutoff, rangeStart, granularity, totals,
                 gpuHoursByModel, gpuHoursByVram, activeNodesByGpuModel,
                 activeNodesByVram, response, error>>

\* lines 162-179
QueryGpuHoursByModel ==
  /\ pc = "gpuHoursByModel"
  /\ \E result \in GpuHoursByModelResult(store, cutoffMs, startMs) :
       gpuHoursByModel' = GroupedMetrics(result)
  /\ Awaited("gpuHoursByModel")
  /\ pc' = "gpuHoursByVram"
  /\ UNCHANGED <<store, env, now, period, cutoff, rangeStart, granularity, totals,
                 timeSeries, gpuHoursByVram, activeNodesByGpuModel, activeNodesByVram,
                 response, error>>

\* lines 181-198
QueryGpuHoursByVram ==
  /\ pc = "gpuHoursByVram"
  /\ \E result \in GpuHoursByVramResult(store, cutoffMs, startMs) :
       gpuHoursByVram' = GroupedMetrics(result)
  /\ Awaited("gpuHoursByVram")
  /\ pc' = "activeNodesByGpuModel"
  /\ UNCHANGED <<store, env, now, period, cutoff, rangeStart, granularity, totals,
                 timeSeries, gpuHoursByModel, activeNodesByGpuModel, activeNodesByVram,
                 response, error>>

\* lines 200-216
QueryActiveNodesByModel ==
  /\ pc = "activeNodesByGpuModel"
  /\ \E result \in ActiveNodesByModelResult(store, cutoffMs, startMs) :
       activeNodesByGpuModel' = GroupedMetrics(result)
  /\ Awaited("activeNodesByGpuModel")
  /\ pc' = "activeNodesByVram"
  /\ UNCHANGED <<store, env, now, period, cutoff, rangeStart, granularity, totals,
                 timeSeries, gpuHoursByModel, gpuHoursByVram, activeNodesByVram,
                 response, error>>

\* lines 218-234
QueryActiveNodesByVram ==
  /\ pc = "activeNodesByVram"
  /\ \E result \in ActiveNodesByVramResult(store, cutoffMs, startMs) :
       activeNodesByVram' = GroupedMetrics(result)
  /\ Awaited("activeNodesByVram")
  /\ pc' = "return"
  /\ UNCHANGED <<store, env, now, period, cutoff, rangeStart, granularity, totals,
                 timeSeries, gpuHoursByModel, gpuHoursByVram, activeNodesByGpuModel,
                 response, error>>

\* lines 236-250: toISOString throws a RangeError on an Invalid Date
Return ==
  /\ pc = "return"
  /\ IF ~IsNull(rangeStart) /\ Val(rangeStart) = NaN
     THEN /\ Throw("RangeError")
          /\ UNCHANGED response
     ELSE /\ response' =
               [period |-> period,
                granularity |-> granularity,
                data_cutoff |-> toISOString(cutoff),
                range |-> [start |-> IF ~IsNull(rangeStart)
                                     THEN toISOString(Val(rangeStart))
                                     ELSE <<"beginning">>,
                           end |-> toISOString(cutoff)],
                totals |-> totals,
                gpu_hours_by_model |-> gpuHoursByModel,
                gpu_hours_by_vram |-> gpuHoursByVram,
                active_nodes_by_gpu_model |-> activeNodesByGpuModel,
                active_nodes_by_vram |-> activeNodesByVram,
                time_series |-> timeSeries]
          /\ pc' = "done"
          /\ UNCHANGED error
  /\ UNCHANGED <<store, env, now, period, cutoff, rangeStart, granularity, totals,
                 timeSeries, gpuHoursByModel, gpuHoursByVram, activeNodesByGpuModel,
                 activeNodesByVram, issued>>

\* the invocation is over and its locals are gone
Forget ==
  /\ pc' = "idle"
  /\ now' = 0
  /\ period' = ""
  /\ cutoff' = 0
  /\ rangeStart' = {}
  /\ granularity' = ""
  /\ totals' = Unset
  /\ timeSeries' = Unset
  /\ gpuHoursByModel' = Unset
  /\ gpuHoursByVram' = Unset
  /\ activeNodesByGpuModel' = Unset
  /\ activeNodesByVram' = Unset
  /\ response' = Unset
  /\ issued' = <<>>
  /\ error' = NoError

\* the caller has the response
Deliver ==
  /\ pc = "done"
  /\ Forget
  /\ UNCHANGED <<store, env>>

Next ==
  \/ \E row \in RowPool : InsertRow(row)
  \/ \E row \in RowPool : DeleteRow(row)
  \/ \E p \in PlanPeriod, clock \in Instants : Call(p, clock)
  \/ QueryTotals
  \/ QueryTimeSeries
  \/ QueryGpuHoursByModel
  \/ QueryGpuHoursByVram
  \/ QueryActiveNodesByModel
  \/ QueryActiveNodesByVram
  \/ Return
  \/ Deliver

Spec == Init /\ [][Next]_vars

(***************************************************************************)
(* getPlanStats as any caller may use it: the argument is whatever string  *)
(* the request carried, and a query may fail                               *)
(***************************************************************************)
\* period values that PERIOD_HOURS has no entry for
UnrecognizedPeriods == {"1y", "12h"}

\* what the promise of query() may be rejected with
QueryErrors == {"connection lost", "query error"}

\* `await query(...)` throws: the query the invocation stands at fails
QueryFails(e) ==
  /\ \E i \in DOMAIN QueryOrder : pc = QueryOrder[i]
  /\ issued' = Append(issued, [query |-> pc, outcome |-> e])
  /\ Throw(e)
  /\ UNCHANGED <<store, env, now, period, cutoff, rangeStart, granularity, totals,
                 timeSeries, gpuHoursByModel, gpuHoursByVram, activeNodesByGpuModel,
                 activeNodesByVram, response>>

\* the caller has the rejection
Reject ==
  /\ pc = "failed"
  /\ Forget
  /\ UNCHANGED <<store, env>>

InitUnguarded ==
  /\ store = EmptyBag
  /\ tz = ZoneUTC
  /\ dbTz = DbZoneUTC
  /\ InitLocals

NextUnguarded ==
  \/ Next
  \/ \E p \in UnrecognizedPeriods, clock \in Instants : Call(p, clock)
  \/ \E e \in QueryErrors : QueryFails(e)
  \/ Reject

SpecUnguarded == InitUnguarded /\ [][NextUnguarded]_vars

(***************************************************************************)
(* getPlanStats against a node_plan that holds an imported dataset         *)
(***************************************************************************)
InitSeeded ==
  /\ store \in Datasets
  /\ \E d \in Deployments : tz = d.tz /\ dbTz = d.dbTz
  /\ InitLocals

NextSeeded ==
  \/ \E p \in PlanPeriod, clock \in Instants : Call(p, clock)
  \/ QueryTotals
  \/ QueryTimeSeries
  \/ QueryGpuHoursByModel
  \/ QueryGpuHoursByVram
  \/ QueryActiveNodesByModel
  \/ QueryActiveNodesByVram
  \/ Return
  \/ Deliver

SpecSeeded == InitSeeded /\ [][NextSeeded]_vars

(***************************************************************************)
(* getPlanStats while another process writes to node_plan: each of the six *)
(* queries is a statement of its own (no transaction spans them), so it    *)
(* reads node_plan as it is when the query runs                            *)
(***************************************************************************)
\* the rows the other process adds and removes: a usage on gpu-A whose
\* stop_at is inside every window of the clock readings
ConcurrentPool == {BaseRow(5)}

\* an import commits a row, whatever the invocation is doing
ImportRow(row) ==
  /\ BagCardinality(store) < MaxRows
  /\ store' = store (+) SetToBag({row})
  /\ UNCHANGED <<env, pc, locals>>

\* a row is deleted, whatever the invocation is doing
RemoveRow(row) ==
  /\ BagIn(row, store)
  /\ store' = store (-) SetToBag({row})
  /\ UNCHANGED <<env, pc, locals>>

InitConcurrent ==
  /\ store = EmptyBag
  /\ tz = ZoneUTC
  /\ dbTz = DbZoneUTC
  /\ InitLocals

NextConcurrent ==
  \/ \E row \in ConcurrentPool : ImportRow(row)
  \/ \E row \in ConcurrentPool : RemoveRow(row)
  \/ NextSeeded

SpecConcurrent == InitConcurrent /\ [][NextConcurrent]_vars

(***************************************************************************)
(* What the claims are stated with                                         *)
(***************************************************************************)
Done == pc = "done"

AggregateFields ==
  {"active_nodes", "total_fees", "compute_hours", "transactions", "core_hours",
   "ram_hours", "gpu_hours"}

\* a stop_at outside the window the response reports: after data_cutoff, or,
\* for a period other than total, before range.start
OutOfWindow(row) ==
  /\ ~IsNull(row.stop_at)
  /\ \/ Val(row.stop_at) > cutoff
     \/ period # "total" /\ Val(row.stop_at) < Val(rangeStart)

\* a stop_at inside the window the response reports, both ends included
InWindow(row) ==
  /\ ~IsNull(row.stop_at)
  /\ Val(row.stop_at) <= cutoff
  /\ period # "total" => Val(row.stop_at) >= Val(rangeStart)

RECURSIVE Total(_, _, _)
\* the sum over the rows r of S, each counted B[r] times, of F[r]
Total(B, F, S) ==
  IF S = {} THEN 0
  ELSE LET r == CHOOSE x \in S : TRUE IN B[r] * F[r] + Total(B, F, S \ {r})

RECURSIVE SumField(_, _, _)
\* the sum of a numeric field over the first n entries of a sequence
SumField(s, field, n) ==
  IF n = 0 THEN 0 ELSE Val(s[n][field]) + SumField(s, field, n - 1)

\* the rows of node_plan that lie in the reported window
WindowRows == Where(store, {r \in DOMAIN store : InWindow(r)})

\* the hour quantity (stop_at - start_at) of a row, 0 when it is NULL
HoursOrZero(row) ==
  IF IsNull(row.start_at) \/ IsNull(row.stop_at) THEN 0
  ELSE Val(row.stop_at) - Val(row.start_at)

(***************************************************************************)
(* C1: no row whose stop_at is after data_cutoff or, for a period other    *)
(* than total, before range.start contributes to any field of the          *)
(* response: the response is one the six queries give on node_plan with    *)
(* those rows removed.                                                     *)
(***************************************************************************)
C1_OutsideRowsDoNotContribute ==
  Done =>
    LET inside == Where(store, {r \in DOMAIN store : ~OutOfWindow(r)})
    IN  /\ response.totals = ParseAggregates(TotalsRow(inside, cutoffMs, startMs))
        /\ response.time_series =
             PlanDataPoints(TimeSeriesResult(inside, cutoffMs, startMs, granularity, dbTz))
        /\ \E res \in GpuHoursByModelResult(inside, cutoffMs, startMs) :
             response.gpu_hours_by_model = GroupedMetrics(res)
        /\ \E res \in GpuHoursByVramResult(inside, cutoffMs, startMs) :
             response.gpu_hours_by_vram = GroupedMetrics(res)
        /\ \E res \in ActiveNodesByModelResult(inside, cutoffMs, startMs) :
             response.active_nodes_by_gpu_model = GroupedMetrics(res)
        /\ \E res \in ActiveNodesByVramResult(inside, cutoffMs, startMs) :
             response.active_nodes_by_vram = GroupedMetrics(res)

(***************************************************************************)
(* C2: data_cutoff is the instant read at the start of the call minus      *)
(* exactly 48 hours (172,800,000 ms), and range.end equals data_cutoff.    *)
(***************************************************************************)
C2_CutoffIsNowMinus48Hours ==
  Done =>
    /\ (now - cutoff) * MsPerTick = 172800000
    /\ response.data_cutoff = toISOString(now - Hours(48))
    /\ response.range.end = response.data_cutoff

(***************************************************************************)
(* C3: for a period other than total, range.start is data_cutoff minus the *)
(* period's hours (6, 24, 168, 720, 2160); for total it is "beginning".    *)
(***************************************************************************)
C3_RangeStartIsCutoffMinusPeriod ==
  Done =>
    LET hours == CASE period = "6h" -> 6 [] period = "24h" -> 24 [] period = "7d" -> 168
                   [] period = "30d" -> 720 [] period = "90d" -> 2160 [] OTHER -> 0
    IN  IF period = "total" THEN response.range.start = <<"beginning">>
        ELSE /\ response.range.start = toISOString(cutoff - Hours(hours))
             /\ response.data_cutoff = toISOString(cutoff)

(***************************************************************************)
(* C4: granularity is "hourly" for 6h, 24h and 7d and "daily" for 30d, 90d *)
(* and total, and the time series has one point per hour of the session's  *)
(* clock holding a selected row when it is hourly, one per day when daily. *)
(***************************************************************************)
\* the start of the hour (width 1) or day (width 24) of the session's clock
\* that instant t lies in
BucketStart(widthHours, t) ==
  CHOOSE b \in (t - Hours(widthHours) + 1)..t :
    (b + OffsetAt(dbTz, b)) % Hours(widthHours) = 0

C4_GranularityAndBucketing ==
  Done =>
    LET width == IF response.granularity = "hourly" THEN 1 ELSE HoursPerDay
        selected == DOMAIN Matching(store, cutoffMs, startMs)
        stamps == {response.time_series[i].timestamp : i \in DOMAIN response.time_series}
    IN  /\ response.granularity =
             (IF response.period \in {"6h", "24h", "7d"} THEN "hourly" ELSE "daily")
        /\ response.granularity \in {"hourly", "daily"}
        /\ stamps = {toISOString(BucketStart(width, Val(r.stop_at))) : r \in selected}
        /\ Cardinality(stamps) = Len(response.time_series)

\* a daily series that merges two rows of different hours, for period 30d
C4_Witness ==
  /\ Done
  /\ response.period = "30d"
  /\ response.granularity = "daily"
  /\ Len(response.time_series) = 1
  /\ response.time_series[1].transactions = {2}
  /\ \E r1, r2 \in DOMAIN Matching(store, cutoffMs, startMs) :
       BucketStart(1, Val(r1.stop_at)) # BucketStart(1, Val(r2.stop_at))

(***************************************************************************)
(* C5: totals.gpu_hours <= totals.compute_hours, for any dataset.          *)
(* Amended: for any dataset in which no row has stop_at before start_at.   *)
(***************************************************************************)
C5_GpuHoursAtMostComputeHours ==
  Done => Val(response.totals.gpu_hours) <= Val(response.totals.compute_hours)

NoNegativeDuration == \A r \in DOMAIN store : HoursOrZero(r) >= 0

C5_Amended ==
  (Done /\ NoNegativeDuration) =>
    Val(response.totals.gpu_hours) <= Val(response.totals.compute_hours)

\* a GPU row and a row without GPU are both counted
C5_Witness ==
  /\ Done
  /\ NoNegativeDuration
  /\ Val(response.totals.gpu_hours) > 0
  /\ Val(response.totals.gpu_hours) < Val(response.totals.compute_hours)

(***************************************************************************)
(* C6: for a dataset fully contained in the reported window, the sum of    *)
(* each of the seven aggregate fields over the time_series buckets equals  *)
(* the field of totals.                                                    *)
(* Amended: that holds for the six fields other than active_nodes; the sum *)
(* of active_nodes over the buckets is at least totals.active_nodes.       *)
(***************************************************************************)
Contained == \A r \in DOMAIN store : InWindow(r)

SeriesSum(field) == SumField(response.time_series, field, Len(response.time_series))

C6_BucketSumsEqualTotals ==
  (Done /\ Contained) =>
    \A f \in AggregateFields : SeriesSum(f) = Val(response.totals[f])

C6_Amended ==
  (Done /\ Contained) =>
    /\ \A f \in AggregateFields \ {"active_nodes"} : SeriesSum(f) = Val(response.totals[f])
    /\ SeriesSum("active_nodes") >= Val(response.totals.active_nodes)

\* a node with rows in two buckets
C6_Witness ==
  /\ Done
  /\ Contained
  /\ Len(response.time_series) = 2
  /\ SeriesSum("active_nodes") > Val(response.totals.active_nodes)
  /\ SeriesSum("total_fees") > 0

(***************************************************************************)
(* C7: when no row of node_plan lies in the reported window, every field   *)
(* of totals is 0 and time_series and the four breakdowns are empty.       *)
(***************************************************************************)
C7_EmptyWindowGivesZeros ==
  (Done /\ \A r \in DOMAIN store : ~InWindow(r)) =>
    /\ \A f \in AggregateFields : response.totals[f] = {0}
    /\ response.time_series = <<>>
    /\ response.gpu_hours_by_model = <<>>
    /\ response.gpu_hours_by_vram = <<>>
    /\ response.active_nodes_by_gpu_model = <<>>
    /\ response.active_nodes_by_vram = <<>>

(***************************************************************************)
(* C8: whatever columns of the rows are NULL, every numeric field of the   *)
(* response is a number (never null or NaN); a sum over NULLs only is      *)
(* reported as 0; and total_fees counts a NULL invoice_amount as 0.        *)
(***************************************************************************)
GroupedSequences ==
  {"gpu_hours_by_model", "gpu_hours_by_vram", "active_nodes_by_gpu_model",
   "active_nodes_by_vram"}

IsNumber(v) == \E n \in v : n \in Int

InvoiceOrZero(row) == IF IsNull(row.invoice_amount) THEN 0 ELSE Val(row.invoice_amount)

C8_NumbersNeverNull ==
  Done =>
    LET selected == Matching(store, cutoffMs, startMs)
        rows == DOMAIN selected
    IN  /\ \A f \in AggregateFields : IsNumber(response.totals[f])
        /\ \A i \in DOMAIN response.time_series :
             \A f \in AggregateFields : IsNumber(response.time_series[i][f])
        /\ \A g \in GroupedSequences :
             \A i \in DOMAIN response[g] : IsNumber(response[g][i].value)
        /\ Val(response.totals.total_fees) =
             Total(selected, [r \in rows |-> InvoiceOrZero(r)], rows)
        /\ (\A r \in rows : IsNull(r.invoice_amount)) => response.totals.total_fees = {0}
        /\ (\A r \in rows : IsNull(r.start_at)) =>
             /\ response.totals.compute_hours = {0}
             /\ response.totals.gpu_hours = {0}
             /\ \A i \in DOMAIN response.gpu_hours_by_model :
                  response.gpu_hours_by_model[i].value = {0}
        /\ (\A r \in rows : IsNull(r.cpu)) => response.totals.core_hours = {0}
        /\ (\A r \in rows : IsNull(r.ram)) => response.totals.ram_hours = {0}

\* a row with NULL invoice_amount, cpu and ram is summed with a row that has
\* them
C8_Witness ==
  /\ Done
  /\ \E r1, r2 \in DOMAIN Matching(store, cutoffMs, startMs) :
       /\ IsNull(r1.invoice_amount) /\ IsNull(r1.cpu) /\ IsNull(r1.ram)
       /\ ~IsNull(r2.invoice_amount)
  /\ response.totals.transactions = {2}
  /\ Val(response.totals.total_fees) > 0

(***************************************************************************)
(* C9: totals.transactions is the number of rows in the reported window    *)
(* (a node's rows counted every time), totals.active_nodes the number of   *)
(* distinct node_id values among them; so active_nodes <= transactions.    *)
(***************************************************************************)
C9_TransactionsAndActiveNodes ==
  Done =>
    /\ Val(response.totals.transactions) = BagCardinality(WindowRows)
    /\ Val(response.totals.active_nodes) =
         Cardinality({n \in {"n1", "n2"} : \E r \in DOMAIN WindowRows : r.node_id = {n}})
    /\ Val(response.totals.active_nodes) <= Val(response.totals.transactions)

(***************************************************************************)
(* C10: totals.gpu_hours, and gpu_hours of every time_series bucket, is    *)
(* the sum of (stop_at - start_at) in hours over exactly the rows in the   *)
(* reported window whose gpu_class_id is neither NULL nor empty, whether   *)
(* or not the id is in gpu_classes.                                        *)
(***************************************************************************)
GpuHoursOf(row) ==
  IF row.gpu_class_id \in {{}, {""}} THEN 0 ELSE HoursOrZero(row)

C10_GpuHoursOverGpuRows ==
  Done =>
    LET width == IF response.granularity = "hourly" THEN 1 ELSE HoursPerDay
        rows == DOMAIN WindowRows
        StampOf(r) == toISOString(BucketStart(width, Val(r.stop_at)))
    IN  /\ Val(response.totals.gpu_hours) =
             Total(WindowRows, [r \in rows |-> GpuHoursOf(r)], rows)
        /\ \A r \in rows :
             \E i \in DOMAIN response.time_series :
               response.time_series[i].timestamp = StampOf(r)
        /\ \A i \in DOMAIN response.time_series :
             LET inBucket == {r \in rows : StampOf(r) = response.time_series[i].timestamp}
             IN  Val(response.time_series[i].gpu_hours) =
                   Total(WindowRows, [r \in rows |-> GpuHoursOf(r)], inBucket)

\* C7, C9 and C10 as far as the code has them: in every invocation whose
\* start bound is not the epoch instant 0
StartIsEpoch == ~IsNull(rangeStart) /\ Val(rangeStart) = 0

WindowClaimsExceptEpochStart ==
  ~StartIsEpoch =>
    /\ C1_OutsideRowsDoNotContribute
    /\ C7_EmptyWindowGivesZeros
    /\ C9_TransactionsAndActiveNodes
    /\ C10_GpuHoursOverGpuRows

(***************************************************************************)
(* C11: end to end.  With two one-hour rows in the reported window (cpu 1, *)
(* ram 1024; one without GPU and invoice 5, one on gpu-A = RTX4090 / 24 GB *)
(* and invoice 10) and a third row whose stop_at is after the cutoff, the  *)
(* response has transactions = 2, active_nodes = the number of distinct    *)
(* node ids of the two rows, gpu_hours = 1, core_hours = 2, ram_hours = 2, *)
(* gpu_hours_by_model = [{RTX4090, 1}], and active_nodes_by_gpu_model has  *)
(* a "No GPU" group and an "RTX4090" group.                                *)
(***************************************************************************)
EndToEndApplies(node) ==
  /\ store = EndToEnd(node)
  /\ InWindow(EndToEndA)
  /\ InWindow(EndToEndB(node))
  /\ Val(EndToEndC.stop_at) > cutoff

C11_EndToEnd ==
  Done =>
    \A node \in {"n1", "n2"} :
      EndToEndApplies(node) =>
        /\ response.totals.transactions = {2}
        /\ response.totals.active_nodes = {Cardinality({"n1", node})}
        /\ response.totals.gpu_hours = {Hours(1)}
        /\ response.totals.core_hours = {Hours(2)}
        /\ response.totals.ram_hours = {Hours(2)}
        /\ response.gpu_hours_by_model = <<[group |-> <<"RTX4090">>, value |-> {Hours(1)}]>>
        /\ {<<"No GPU">>, <<"RTX4090">>} \subseteq
             {response.active_nodes_by_gpu_model[i].group :
                i \in DOMAIN response.active_nodes_by_gpu_model}

\* the scenario with the two rows on different nodes, for period 6h
C11_Witness ==
  /\ Done
  /\ EndToEndApplies("n2")
  /\ response.period = "6h"
  /\ response.totals.active_nodes = {2}
  /\ response.totals.ram_hours = {Hours(2)}

(***************************************************************************)
(* C12: gpu_hours_by_model has one entry per GPU class name among the rows *)
(* in the reported window whose gpu_class_id is neither NULL nor empty;    *)
(* its value is the summed duration hours of those rows; rows whose class  *)
(* id is not in gpu_classes are grouped under "Unknown"; rows with a NULL  *)
(* or empty class id are in no entry; and the entries are ordered by       *)
(* value, largest first.                                                   *)
(***************************************************************************)
\* the rows in the reported window that have a GPU class id
WindowGpuRows ==
  Where(WindowRows, {r \in DOMAIN WindowRows : r.gpu_class_id \notin {{}, {""}}})

\* the class name the lookup has for a row, or the given label when the
\* lookup has no class for it
ModelLabel(row, ifNone) ==
  IF \E gc \in GpuClasses : row.gpu_class_id = {gc.gpu_class_id}
  THEN <<(CHOOSE gc \in GpuClasses : row.gpu_class_id = {gc.gpu_class_id}).gpu_class_name>>
  ELSE <<ifNone>>

\* the labels of a breakdown
Groups(breakdown) == {breakdown[i].group : i \in DOMAIN breakdown}

\* no label occurs twice in a breakdown
OneEntryPerGroup(breakdown) == Cardinality(Groups(breakdown)) = Len(breakdown)

\* the values of a breakdown never increase from one entry to the next
ValuesDescend(breakdown) ==
  \A i \in DOMAIN breakdown :
    i < Len(breakdown) => Val(breakdown[i].value) >= Val(breakdown[i + 1].value)

C12_GpuHoursByModel ==
  Done =>
    LET rows == DOMAIN WindowGpuRows
        out == response.gpu_hours_by_model
    IN  /\ Groups(out) = {ModelLabel(r, "Unknown") : r \in rows}
        /\ OneEntryPerGroup(out)
        /\ \A i \in DOMAIN out :
             Val(out[i].value) =
               Total(WindowGpuRows, [r \in rows |-> HoursOrZero(r)],
                     {r \in rows : ModelLabel(r, "Unknown") = out[i].group})
        /\ ValuesDescend(out)

\* C12 (and C15, C16 below) as far as the code has them: in every
\* invocation whose start bound is not the epoch instant 0
C12_ExceptEpochStart == ~StartIsEpoch => C12_GpuHoursByModel

(***************************************************************************)
(* C13: gpu_hours_by_vram has one entry per VRAM tier among the rows in    *)
(* the reported window whose gpu_class_id is neither NULL nor empty,       *)
(* labelled "<N> GB", or "Unknown" when the lookup gives no VRAM value for *)
(* the row's class; the entries are in ascending numeric order of tier     *)
(* ("8 GB" before "24 GB"), the "Unknown" entry, when present, first.      *)
(***************************************************************************)
\* the VRAM tier the lookup has for a row: {n}, or {} when it has none
TierOf(row) ==
  UNION {gc.vram_gb : gc \in {c \in GpuClasses : row.gpu_class_id = {c.gpu_class_id}}}

TierLabel(tier, ifNone) ==
  IF tier = {} THEN <<ifNone>> ELSE ToText(Val(tier)) \o <<" GB">>

RECURSIVE Ascending(_)
\* the numbers of a set in ascending order
Ascending(S) ==
  IF S = {} THEN <<>>
  ELSE LET least == CHOOSE x \in S : \A y \in S : x <= y
       IN  <<least>> \o Ascending(S \ {least})

\* the tiers of a set of rows in ascending order, the missing tier first
TiersNoneFirst(rows) ==
  LET tiers == {TierOf(r) : r \in rows}
      numbered == Ascending(UNION tiers)
  IN  (IF {} \in tiers THEN <<{}>> ELSE <<>>) \o [i \in DOMAIN numbered |-> {numbered[i]}]

C13_GpuHoursByVram ==
  Done =>
    LET rows == DOMAIN WindowGpuRows
        expected == TiersNoneFirst(rows)
        out == response.gpu_hours_by_vram
    IN  /\ Len(out) = Len(expected)
        /\ \A i \in DOMAIN out :
             /\ out[i].group = TierLabel(expected[i], "Unknown")
             /\ Val(out[i].value) =
                  Total(WindowGpuRows, [r \in rows |-> HoursOrZero(r)],
                        {r \in rows : TierOf(r) = expected[i]})

\* what the code does instead: the same entries, the "Unknown" entry last
C13_UnknownLast ==
  Done =>
    LET rows == DOMAIN WindowGpuRows
        expected == TiersNoneFirst(rows)
        out == response.gpu_hours_by_vram
        last == IF Len(expected) > 0 /\ expected[1] = {}
                THEN Tail(expected) \o <<{}>> ELSE expected
    IN  ~StartIsEpoch =>
          /\ Len(out) = Len(last)
          /\ \A i \in DOMAIN out :
               /\ out[i].group = TierLabel(last[i], "Unknown")
               /\ Val(out[i].value) =
                    Total(WindowGpuRows, [r \in rows |-> HoursOrZero(r)],
                          {r \in rows : TierOf(r) = last[i]})

(***************************************************************************)
(* C14: active_nodes_by_gpu_model covers all rows in the reported window   *)
(* (no GPU-presence filter), reports nodes without a GPU under the label   *)
(* "No GPU", and its entries are ordered descending by the numeric         *)
(* distinct-node count: of two adjacent entries the first count is >= the  *)
(* second, also when the counts differ in their number of digits (10       *)
(* before 9).                                                              *)
(***************************************************************************)
C14_ActiveNodesByModelOrder ==
  Done =>
    LET rows == DOMAIN WindowRows
        out == response.active_nodes_by_gpu_model
    IN  /\ Groups(out) = {ModelLabel(r, "No GPU") : r \in rows}
        /\ (\E r \in rows : r.gpu_class_id \in {{}, {""}}) => <<"No GPU">> \in Groups(out)
        /\ ValuesDescend(out)

(***************************************************************************)
(* C15: active_nodes_by_vram has one entry per VRAM tier over all rows in  *)
(* the reported window, labelled "<N> GB", or "No GPU" when the row has no *)
(* VRAM value; its value is the distinct node count of the tier; the       *)
(* entries are in ascending numeric order of tier, the "No GPU" entry      *)
(* first.                                                                  *)
(***************************************************************************)
\* the number of distinct node ids among rows (a NULL node_id is no node)
DistinctNodes(rows) == Cardinality(UNION {r.node_id : r \in rows})

C15_ActiveNodesByVram ==
  Done =>
    LET rows == DOMAIN WindowRows
        expected == TiersNoneFirst(rows)
        out == response.active_nodes_by_vram
    IN  /\ Len(out) = Len(expected)
        /\ \A i \in DOMAIN out :
             /\ out[i].group = TierLabel(expected[i], "No GPU")
             /\ Val(out[i].value) = DistinctNodes({r \in rows : TierOf(r) = expected[i]})

C15_ExceptEpochStart == ~StartIsEpoch => C15_ActiveNodesByVram

(***************************************************************************)
(* C16: in active_nodes_by_gpu_model the value of each group is the number *)
(* of distinct node_id values of the rows in the reported window that fall *)
(* in the group; a node with rows in k groups is counted once in each of   *)
(* them, so the sum of the group values is >= totals.active_nodes and may  *)
(* exceed it.                                                              *)
(***************************************************************************)
C16_GroupCountsAreSetCardinalities ==
  Done =>
    LET rows == DOMAIN WindowRows
        out == response.active_nodes_by_gpu_model
    IN  /\ Groups(out) = {ModelLabel(r, "No GPU") : r \in rows}
        /\ OneEntryPerGroup(out)
        /\ \A i \in DOMAIN out :
             Val(out[i].value) =
               DistinctNodes({r \in rows : ModelLabel(r, "No GPU") = out[i].group})
        /\ SumField(out, "value", Len(out)) >= Val(response.totals.active_nodes)

C16_ExceptEpochStart == ~StartIsEpoch => C16_GroupCountsAreSetCardinalities

\* one node with rows in two groups: the group values sum to more than
\* totals.active_nodes
C16_NodeInTwoGroups ==
  /\ Done
  /\ ~StartIsEpoch
  /\ Len(response.active_nodes_by_gpu_model) = 2
  /\ response.totals.active_nodes = {1}
  /\ SumField(response.active_nodes_by_gpu_model, "value", 2) = 2

(***************************************************************************)
(* C17: if one of the six queries of an invocation fails, the invocation   *)
(* fails with that error: the query is not retried, no later query of the  *)
(* invocation is issued, and no partial response is returned.              *)
(***************************************************************************)
C17_QueryFailurePropagates ==
  (\E i \in DOMAIN issued : issued[i].outcome # "ok") =>
    /\ pc = "failed"
    /\ error = issued[Len(issued)].outcome
    /\ \A i \in DOMAIN issued : i < Len(issued) => issued[i].outcome = "ok"
    /\ Len(issued) <= Len(QueryOrder)
    /\ \A i \in DOMAIN issued : issued[i].query = QueryOrder[i]
    /\ response = Unset

\* the fourth query fails after three have succeeded
C17_Witness ==
  /\ pc = "failed"
  /\ error = "connection lost"
  /\ Len(issued) = 4
  /\ issued[4] = [query |-> "gpuHoursByVram", outcome |-> "connection lost"]
  /\ totals # Unset
  /\ BagCardinality(store) > 0

(***************************************************************************)
(* C18: a period outside 6h, 24h, 7d, 30d, 90d, total is rejected as an    *)
(* input-validation error before the aggregation runs: no query is issued  *)
(* for it, and it is not handled like total or any other valid period.     *)
(***************************************************************************)
C18_UnrecognizedPeriodRejected ==
  (pc # "idle" /\ period \notin PlanPeriod) =>
    /\ issued = <<>>
    /\ pc # "done"
    /\ pc = "failed" => error = "ValidationError"

\* what the code does with such a period: hourly granularity, all six
\* queries without lower bound, then a RangeError from toISOString
C18_WhatTheCodeDoes ==
  (pc # "idle" /\ period \notin PlanPeriod) =>
    /\ granularity = "hourly"
    /\ rangeStart = {NaN}
    /\ ~Truthy(startMs)
    /\ pc # "done"
    /\ (pc = "failed" /\ error \notin QueryErrors) =>
         /\ error = "RangeError"
         /\ Len(issued) = Len(QueryOrder)
         /\ Val(totals.transactions) =
              BagCardinality(Where(store, {r \in DOMAIN store :
                                     ~IsNull(r.stop_at) /\ Val(r.stop_at) <= cutoff}))

(***************************************************************************)
(* C19: the response of one invocation is a consistent snapshot: the six   *)
(* queries use the same cutoff and start bound and see the same rows, so   *)
(* that totals.transactions is the sum of transactions over time_series    *)
(* and totals.gpu_hours the sum of the gpu_hours_by_model values, also     *)
(* when another process inserts or deletes rows with stop_at inside the    *)
(* window while the invocation is in progress.                             *)
(***************************************************************************)
C19_ConsistentSnapshot ==
  Done =>
    /\ SeriesSum("transactions") = Val(response.totals.transactions)
    /\ SumField(response.gpu_hours_by_model, "value", Len(response.gpu_hours_by_model))
         = Val(response.totals.gpu_hours)

(***************************************************************************)
(* C20: the time-window filter of each of the six queries includes both    *)
(* ends and applies the lower bound for every period other than total: a   *)
(* row with stop_at equal to the cutoff and a row with stop_at equal to    *)
(* the range start are counted, and stop_at >= start is left out only for  *)
(* total, that is, it is applied whenever range.start is reported as a     *)
(* timestamp and not as "beginning" (also when the start is epoch          *)
(* millisecond 0).                                                         *)
(***************************************************************************)
\* a row the filter is to let through, given the window as the response
\* reports it
PassesReportedWindow(row) ==
  /\ ~IsNull(row.stop_at)
  /\ Val(row.stop_at) <= cutoff
  /\ response.range.start # <<"beginning">> => Val(row.stop_at) >= Val(rangeStart)

C20_FilterInclusiveWithLowerBound ==
  Done =>
    LET passing == Where(store, {r \in DOMAIN store : PassesReportedWindow(r)})
        rows == DOMAIN passing
        gpuRows == {r \in rows : r.gpu_class_id \notin {{}, {""}}}
        gpuHours == Total(passing, [r \in rows |-> HoursOrZero(r)], gpuRows)
    IN  /\ (response.range.start = <<"beginning">>) <=> (response.period = "total")
        /\ Val(response.totals.transactions) = BagCardinality(passing)
        /\ SeriesSum("transactions") = BagCardinality(passing)
        /\ SumField(response.gpu_hours_by_model, "value", Len(response.gpu_hours_by_model))
             = gpuHours
        /\ SumField(response.gpu_hours_by_vram, "value", Len(response.gpu_hours_by_vram))
             = gpuHours
        /\ Groups(response.active_nodes_by_gpu_model) = {ModelLabel(r, "No GPU") : r \in rows}
        /\ Groups(response.active_nodes_by_vram) = {TierLabel(TierOf(r), "No GPU") : r \in rows}

C20_ExceptEpochStart == ~StartIsEpoch => C20_FilterInclusiveWithLowerBound

\* rows at both ends of a window are counted: stop_at equal to the cutoff
\* and stop_at equal to the range start
C20_BothEndsCounted ==
  /\ Done
  /\ response.period = "6h"
  /\ \E r1, r2 \in DOMAIN store :
       /\ r1.stop_at = {cutoff}
       /\ r2.stop_at = rangeStart
  /\ response.totals.transactions = {2}
  /\ Len(response.time_series) = 2

(***************************************************************************)
(* C21: the time series is sparse and strictly ordered: the bucket         *)
(* timestamps ascend strictly (no two points share a bucket), every point  *)
(* has transactions >= 1, every matching row is counted in exactly one     *)
(* point, the one whose bucket start b has b <= stop_at < b + the bucket   *)
(* width (one hour or one day), and there is no point for a bucket         *)
(* without matching rows.                                                  *)
(***************************************************************************)
\* the width of a bucket of the response
SeriesWidth == Hours(IF response.granularity = "hourly" THEN 1 ELSE HoursPerDay)

\* the instants b with b <= stop_at < b + the bucket width
StartsCovering(row) ==
  IF IsNull(row.stop_at) THEN {}
  ELSE (Val(row.stop_at) - SeriesWidth + 1)..Val(row.stop_at)

\* the instants a point's timestamp denotes, among those covering a row of
\* node_plan
PointStarts(i) ==
  {b \in UNION {StartsCovering(r) : r \in DOMAIN store} :
     toISOString(b) = response.time_series[i].timestamp}

\* the points whose bucket holds the row
PointsOf(row) == {i \in DOMAIN response.time_series : PointStarts(i) \cap StartsCovering(row) # {}}

C21_SparseOrderedSeries ==
  Done =>
    LET series == response.time_series
        held(i) == {r \in DOMAIN WindowRows : i \in PointsOf(r)}
    IN  /\ \A i \in DOMAIN series :
             /\ Cardinality(PointStarts(i)) = 1
             /\ held(i) # {}
             /\ Val(series[i].transactions) >= 1
             /\ Val(series[i].transactions) = BagCardinality(Where(WindowRows, held(i)))
        /\ \A i, j \in DOMAIN series :
             i < j => \A bi \in PointStarts(i), bj \in PointStarts(j) : bi < bj
        /\ \A r \in DOMAIN WindowRows : Cardinality(PointsOf(r)) = 1

C21_ExceptEpochStart == ~StartIsEpoch => C21_SparseOrderedSeries

\* a series of two points with empty buckets between them
C21_SparseSeries ==
  /\ Done
  /\ ~StartIsEpoch
  /\ Len(response.time_series) = 2
  /\ \A b1 \in PointStarts(1), b2 \in PointStarts(2) : b2 > b1 + SeriesWidth
  /\ Cardinality(PointStarts(1)) = 1
  /\ Cardinality(PointStarts(2)) = 1

(***************************************************************************)
(* C22: for every dataset and period, node_plan unchanged during the       *)
(* call, the values of gpu_hours_by_model sum to totals.gpu_hours and so   *)
(* do the values of gpu_hours_by_vram: each of the two GPU-hours           *)
(* breakdowns partitions exactly the rows that totals.gpu_hours counts.    *)
(***************************************************************************)
\* the sum of the values of a breakdown
ValueSum(breakdown) == SumField(breakdown, "value", Len(breakdown))

\* the groups hold every row of bag B, each in one group and as often as B
\* holds it
Partition(groups, B) ==
  /\ \A g1, g2 \in groups : g1 # g2 => DOMAIN g1.rows \cap DOMAIN g2.rows = {}
  /\ UNION {DOMAIN g.rows : g \in groups} = DOMAIN B
  /\ \A g \in groups : \A r \in DOMAIN g.rows : g.rows[r] = B[r]

C22_GpuBreakdownsSumToTotal ==
  Done =>
    LET selected == Matching(store, cutoffMs, startMs)
        \* the rows the CASE of totals.gpu_hours lets contribute
        counted == Where(selected, {r \in DOMAIN selected : HasGpu(r)})
        byModel == GroupByName(MatchingWithGpu(store, cutoffMs, startMs))
        byVram == GroupByVram(MatchingWithGpu(store, cutoffMs, startMs))
    IN  /\ ValueSum(response.gpu_hours_by_model) = Val(response.totals.gpu_hours)
        /\ ValueSum(response.gpu_hours_by_vram) = Val(response.totals.gpu_hours)
        /\ Partition(byModel, counted)
        /\ Partition(byVram, counted)
        /\ Len(response.gpu_hours_by_model) = Cardinality(byModel)
        /\ Len(response.gpu_hours_by_vram) = Cardinality(byVram)

\* two models in one VRAM group, next to GPU hours counted in totals
C22_Witness ==
  /\ Done
  /\ Len(response.gpu_hours_by_model) = 2
  /\ Len(response.gpu_hours_by_vram) = 1
  /\ Val(response.totals.gpu_hours) = Hours(2)
  /\ ValueSum(response.gpu_hours_by_model) = Hours(2)
  /\ ValueSum(response.gpu_hours_by_vram) = Hours(2)

\* a row without GPU in the totals, and in no entry of the two breakdowns
C22_RowWithoutGpu ==
  /\ Done
  /\ response.totals.transactions = {2}
  /\ Val(response.totals.compute_hours) > Val(response.totals.gpu_hours)
  /\ Val(response.totals.gpu_hours) > 0
  /\ Len(response.gpu_hours_by_model) = 1
  /\ ValueSum(response.gpu_hours_by_vram) = Val(response.totals.gpu_hours)

(***************************************************************************)
(* C23: a matching row whose gpu_class_id is non-empty but has no entry in *)
(* gpu_classes is reported under the label "Unknown" in gpu_hours_by_model *)
(* and gpu_hours_by_vram, and under the label "No GPU" in                  *)
(* active_nodes_by_gpu_model and active_nodes_by_vram, in one group with   *)
(* the rows whose gpu_class_id is null or empty; so the "No GPU" groups    *)
(* can count nodes whose rows contribute to totals.gpu_hours.              *)
(***************************************************************************)
\* a non-empty gpu_class_id that gpu_classes does not have
NotInLookup(row) == HasGpu(row) /\ Joined(row) = {}

\* the values of the entries of a breakdown that carry the label
ValuesUnder(breakdown, label) ==
  {<<i, Val(breakdown[i].value)>> : i \in {j \in DOMAIN breakdown : breakdown[j].group = <<label>>}}

\* the breakdown has one entry with the label, and its value is v
OneEntry(breakdown, label, v) ==
  /\ Cardinality(ValuesUnder(breakdown, label)) = 1
  /\ \A e \in ValuesUnder(breakdown, label) : e[2] = v

C23_UnknownVersusNoGpu ==
  Done =>
    LET selected == Matching(store, cutoffMs, startMs)
        rows == DOMAIN selected
        hours(S) == Total(selected, [r \in rows |-> HoursOrZero(r)], S)
    IN  \A row \in DOMAIN WindowRows :
          NotInLookup(row) =>
            /\ row \in rows
            /\ OneEntry(response.gpu_hours_by_model, "Unknown",
                        hours({r \in rows : HasGpu(r) /\ GcName(r) = {}}))
            /\ OneEntry(response.gpu_hours_by_vram, "Unknown",
                        hours({r \in rows : HasGpu(r) /\ GcVram(r) = {}}))
            /\ OneEntry(response.active_nodes_by_gpu_model, "No GPU",
                        DistinctNodes({r \in rows : GcName(r) = {}}))
            /\ OneEntry(response.active_nodes_by_vram, "No GPU",
                        DistinctNodes({r \in rows : GcVram(r) = {}}))
            /\ ValuesUnder(response.gpu_hours_by_model, "No GPU") = {}
            /\ ValuesUnder(response.gpu_hours_by_vram, "No GPU") = {}
            /\ ValuesUnder(response.active_nodes_by_gpu_model, "Unknown") = {}
            /\ ValuesUnder(response.active_nodes_by_vram, "Unknown") = {}

\* the "No GPU" groups count two nodes, one of them through a row that
\* contributes to totals.gpu_hours
C23_Witness ==
  /\ Done
  /\ \E r1, r2 \in DOMAIN WindowRows :
       /\ NotInLookup(r1)
       /\ HoursOrZero(r1) > 0
       /\ ~HasGpu(r2)
       /\ r1.node_id # r2.node_id
       /\ ~IsNull(r1.node_id)
       /\ ~IsNull(r2.node_id)
  /\ OneEntry(response.active_nodes_by_gpu_model, "No GPU", 2)
  /\ OneEntry(response.active_nodes_by_vram, "No GPU", 2)
  /\ Len(response.active_nodes_by_gpu_model) = 1
  /\ Val(response.totals.gpu_hours) > 0
  /\ OneEntry(response.gpu_hours_by_model, "Unknown", Val(response.totals.gpu_hours))
  /\ OneEntry(response.gpu_hours_by_vram, "Unknown", Val(response.totals.gpu_hours))

====
